---------------------------- MODULE Spec2Model ----------------------------
(***************************************************************************)
(* Fairscale Compass: the score aggregation of /fetch, the sentiment-state *)
(* classification (background selection), the threshold configuration and  *)
(* the layer pipeline of the gauge renderers, as implemented by            *)
(*   src/server.js      Express server, PNG rendered by renderGaugeBuffer  *)
(*   src/api/index.mjs  serverless handler, PNG rendered by renderCardPNG  *)
(*   src/api/logout.js  serverless handler, client canvas page (gaugeHtml) *)
(*                                                                         *)
(* JavaScript values are encoded as follows.                               *)
(*   string            a sequence of one-character strings                 *)
(*   number | null | undefined      <<"num", n>>, <<"null", 0>>,           *)
(*                                  <<"undefined", 0>>                     *)
(*   a field of a scorer tally      <<"num", n>>, <<"str", 0>> (present,   *)
(*                                  not a number), <<"missing", 0>>        *)
(*   parsed webhook body            a record with a kind: "nonjson",       *)
(*                                  "null", "prim", "obj", "arr"           *)
(* Math.round is computed exactly (round half up); counts are integers.    *)
(***************************************************************************)
EXTENDS Integers, Sequences, FiniteSets, TLC

Max(a, b) == IF a >= b THEN a ELSE b
Min(a, b) == IF a <= b THEN a ELSE b

(***************************************************************************)
(* The lenient integer parser.                                             *)
(***************************************************************************)
Digits == {"0", "1", "2", "3", "4", "5", "6", "7", "8", "9"}

DigitVal(c) ==
  CASE c = "0" -> 0 [] c = "1" -> 1 [] c = "2" -> 2 [] c = "3" -> 3
    [] c = "4" -> 4 [] c = "5" -> 5 [] c = "6" -> 6 [] c = "7" -> 7
    [] c = "8" -> 8 [] c = "9" -> 9

\* Where the leftmost match of /-?\d+/ starts in v (0: no match).
MatchStart(v) ==
  LET hits == { i \in 1..Len(v) :
                  \/ v[i] \in Digits
                  \/ v[i] = "-" /\ i < Len(v) /\ v[i + 1] \in Digits }
  IN IF hits = {} THEN 0 ELSE CHOOSE i \in hits : \A j \in hits : i <= j

\* parseInt of the greedy digit run of v that starts at position i.
RECURSIVE DigitRun(_, _, _)
DigitRun(v, i, acc) ==
  IF i <= Len(v) /\ v[i] \in Digits
    THEN DigitRun(v, i + 1, acc * 10 + DigitVal(v[i]))
    ELSE acc

\* The last position of the greedy digit run of v that starts at i.
RunEnd(v, i) ==
  CHOOSE j \in i..Len(v) :
    /\ \A k \in (i + 1)..j : v[k] \in Digits
    /\ j = Len(v) \/ v[j + 1] \notin Digits

\* The first significant digit of the run v[i..j]: leading zeros skipped.
SigStart(v, i, j) ==
  CHOOSE k \in i..j :
    /\ \A z \in i..(k - 1) : v[z] = "0"
    /\ k = j \/ v[k] # "0"

\* A decimal integer of this many significant digits is above every finite
\* double: parseInt answers Infinity (or -Infinity).
InfinityDigits == 310

\* The digits of a match that end at j, the significant ones starting at z.
DigitSpan(z, j) == [sigFirst |-> z, last |-> j, sig |-> j - z + 1]
DigitsUpTo(v, d, j) == DigitSpan(SigStart(v, d, j), j)
\* The digits of the match whose first digit is at d.
MatchDigits(v, d) == DigitsUpTo(v, d, RunEnd(v, d))

\* parseInt(m[0], 10) of the digits g, the sign apart (the digits are read
\* from the first significant one on).
parseDigits(v, g) == DigitRun(v, g.sigFirst, 0)

\* intish with the sign of the match dropped.
intishDigitsOnly(v, m, g, def) ==
  IF g.sig >= InfinityDigits THEN def ELSE parseDigits(v, g)
intishAtIgnoreSign(v, m, def) ==
  IF m = 0 THEN def
  ELSE intishDigitsOnly(v, m, MatchDigits(v, IF v[m] = "-" THEN m + 1 ELSE m), def)
intishIgnoreSign(v, def) == intishAtIgnoreSign(v, MatchStart(v), def)

\* const n = m ? parseInt(m[0], 10) : NaN; return Number.isFinite(n) ? n : def;
\* for the match at m with digits g: n is infinite from InfinityDigits on.
intishOfMatch(v, m, g, def) ==
  IF g.sig >= InfinityDigits THEN def
  ELSE IF v[m] = "-" THEN 0 - parseDigits(v, g) ELSE parseDigits(v, g)

\* m = 0: no match.
intishAt(v, m, def) ==
  IF m = 0 THEN def
  ELSE intishOfMatch(v, m, MatchDigits(v, IF v[m] = "-" THEN m + 1 ELSE m), def)

intish(v, def) == intishAt(v, MatchStart(v), def)

(***************************************************************************)
(* Configuration: the raw environment strings and the thresholds derived   *)
(* from them by each render path.                                          *)
(***************************************************************************)
Str20 == <<"2", "0">>
Str40 == <<"4", "0">>
Str60 == <<"6", "0">>
Str80 == <<"8", "0">>

\* process.env defaults of the threshold variables.
DefaultEnv ==
  [THRESH_SB |-> Str20, THRESH_B |-> Str40, THRESH_N |-> Str60, THRESH_BU |-> Str80]

\* renderGaugeBuffer: thresholds, clamped and made non-decreasing.
gaugeThresholds(e) ==
  LET tSB == Max(0, Min(100, intish(e.THRESH_SB, 20)))
      tB  == Max(tSB, Min(100, intish(e.THRESH_B, 40)))
      tN  == Max(tB, Min(100, intish(e.THRESH_N, 60)))
      tBU == Max(tN, Min(100, intish(e.THRESH_BU, 80)))
  IN [tSB |-> tSB, tB |-> tB, tN |-> tN, tBU |-> tBU]

\* renderCardPNG: the same chain.
cardThresholds(e) ==
  LET tSB == Max(0, Min(100, intish(e.THRESH_SB, 20)))
      tB  == Max(tSB, Min(100, intish(e.THRESH_B, 40)))
      tN  == Max(tB, Min(100, intish(e.THRESH_N, 60)))
      tBU == Max(tN, Min(100, intish(e.THRESH_BU, 80)))
  IN [tSB |-> tSB, tB |-> tB, tN |-> tN, tBU |-> tBU]

\* The env block /fetch of logout.js hands to gaugeHtml: each threshold is
\* clamped to [0,100] on its own.
htmlThresholds(e) ==
  [tSB |-> Max(0, Min(100, intish(e.THRESH_SB, 20))),
   tB  |-> Max(0, Min(100, intish(e.THRESH_B, 40))),
   tN  |-> Max(0, Min(100, intish(e.THRESH_N, 60))),
   tBU |-> Max(0, Min(100, intish(e.THRESH_BU, 80)))]

(***************************************************************************)
(* Classification: the background art selected for a score.                *)
(***************************************************************************)
BgFiles ==
  {"strongly-bearish.png", "bearish.png", "neutral.png", "bullish.png",
   "strongly-bullish.png"}

\* Number(x) || 0 for x a number or null.
NumberOrZero(x) == IF x[1] = "num" THEN x[2] ELSE 0

\* renderGaugeBuffer: lastScore defaults to 50 when the session has none
\* (undefined); null is kept and becomes 0.
gaugeScore(lastScore) ==
  LET ls == IF lastScore[1] = "undefined" THEN <<"num", 50>> ELSE lastScore
  IN Max(0, Min(100, NumberOrZero(ls)))

\* A boundary bug: the upper band is entered one point late.
gaugeBgFileExclusive(s, t) ==
  IF s > t.tSB /\ s < t.tB THEN "bearish.png"
  ELSE IF s > t.tB /\ s < t.tN THEN "neutral.png"
  ELSE IF s > t.tN /\ s < t.tBU THEN "bullish.png"
  ELSE IF s > t.tBU THEN "strongly-bullish.png"
  ELSE "strongly-bearish.png"

\* A boundary bug: a band also claims the threshold that ends it.
gaugeBgFileUpperInclusive(s, t) ==
  IF s >= t.tSB /\ s <= t.tB THEN "bearish.png"
  ELSE IF s >= t.tB /\ s <= t.tN THEN "neutral.png"
  ELSE IF s >= t.tN /\ s <= t.tBU THEN "bullish.png"
  ELSE IF s >= t.tBU THEN "strongly-bullish.png"
  ELSE "strongly-bearish.png"

\* const bgFile = s >= tSB && s < tB ? "bearish.png" : ... : "strongly-bearish.png"
gaugeBgFile(s, t) ==
  IF s >= t.tSB /\ s < t.tB THEN "bearish.png"
  ELSE IF s >= t.tB /\ s < t.tN THEN "neutral.png"
  ELSE IF s >= t.tN /\ s < t.tBU THEN "bullish.png"
  ELSE IF s >= t.tBU THEN "strongly-bullish.png"
  ELSE "strongly-bearish.png"

\* renderCardPNG: score is a number (checked by /card.png).
cardScore(score) == Max(0, Min(100, NumberOrZero(score)))

cardBgFile(s, t) ==
  IF s >= t.tSB /\ s < t.tB THEN "bearish.png"
  ELSE IF s >= t.tB /\ s < t.tN THEN "neutral.png"
  ELSE IF s >= t.tN /\ s < t.tBU THEN "bullish.png"
  ELSE IF s >= t.tBU THEN "strongly-bullish.png"
  ELSE "strongly-bearish.png"

\* gaugeHtml: score is the number /fetch computed.
htmlScore(score) == Max(0, Min(100, score))

htmlBgFile(s, t) ==
  IF s >= t.tSB /\ s < t.tB THEN "bearish.png"
  ELSE IF s >= t.tB /\ s < t.tN THEN "neutral.png"
  ELSE IF s >= t.tN /\ s < t.tBU THEN "bullish.png"
  ELSE IF s >= t.tBU THEN "strongly-bullish.png"
  ELSE "strongly-bearish.png"


(***************************************************************************)
(* The scorer's response and the score aggregation of /fetch.              *)
(***************************************************************************)
JNull == [kind |-> "null"]
JPrim == [kind |-> "prim"]
NonJson == [kind |-> "nonjson"]
NoScore == <<"null", 0>>

Tally(p, neu, neg) ==
  [kind |-> "obj", Positive |-> p, Neutral |-> neu, Negative |-> neg]
JArray(items) == [kind |-> "arr", items |-> items]

\* typeof f === "number" ? f : 0 added to acc.
AddIfNumber(acc, f) == IF f[1] = "num" THEN acc + f[2] ELSE acc

\* Math.round(num / den) for den > 0: the nearest integer, halves upwards.
MathRound(num, den) == (2 * num + den) \div (2 * den)

\* A slip that drops the factor 2 of the denominator.
scoreFormulaPlain(P, Neg, T) == MathRound(100 * (P - Neg + T), T)

\* A slip that scores the share of positive posts alone.
scoreFormulaPositiveShare(P, Neg, T) == MathRound(100 * P, T)

\* A slip that truncates (Math.floor) instead of rounding.
scoreFormulaFloor(P, Neg, T) == (100 * (P - Neg + T)) \div (2 * T)

\* Math.round(((P - Neg + T) / (2 * T)) * 100)
scoreFormula(P, Neg, T) == MathRound(100 * (P - Neg + T), 2 * T)

\* A slip that fabricates a denominator when nothing was counted or sent.
totalOrOne(P, Neut, Neg, n) ==
  IF P + Neut + Neg # 0 THEN P + Neut + Neg ELSE IF n # 0 THEN n ELSE 1

\* const T = P + Neut + Neg || tweetsToSend.length || 0
total(P, Neut, Neg, n) ==
  IF P + Neut + Neg # 0 THEN P + Neut + Neg ELSE IF n # 0 THEN n ELSE 0

\* A slip that assigns instead of accumulating in the array loop.
RECURSIVE sumItemsLast(_, _, _)
sumItemsLast(items, i, acc) ==
  IF i > Len(items) THEN acc
  ELSE LET obj == items[i]
       IN IF obj.kind # "obj" THEN sumItemsLast(items, i + 1, acc)
          ELSE sumItemsLast(items, i + 1,
                 [P    |-> AddIfNumber(0, obj.Positive),
                  Neut |-> AddIfNumber(0, obj.Neutral),
                  Neg  |-> AddIfNumber(0, obj.Negative)])

\* for (const obj of parsedAny): null and non-object elements are skipped,
\* numeric fields are accumulated.
RECURSIVE sumItems(_, _, _)
sumItems(items, i, acc) ==
  IF i > Len(items) THEN acc
  ELSE LET obj == items[i]
       IN IF obj.kind # "obj" THEN sumItems(items, i + 1, acc)
          ELSE sumItems(items, i + 1,
                 [P    |-> AddIfNumber(acc.P, obj.Positive),
                  Neut |-> AddIfNumber(acc.Neut, obj.Neutral),
                  Neg  |-> AddIfNumber(acc.Neg, obj.Negative)])

Zero3 == [P |-> 0, Neut |-> 0, Neg |-> 0]

\* The sums of a single object: each numeric field is assigned.
objectSums(o) ==
  [P    |-> AddIfNumber(0, o.Positive),
   Neut |-> AddIfNumber(0, o.Neutral),
   Neg  |-> AddIfNumber(0, o.Negative)]

\* server.js /fetch: the try block that computes displayScore from the
\* webhook's body and the number n of posts sent. JSON.parse throwing, and
\* the property read on null ('typeof null' is "object"), end in the catch
\* with displayScore still null.
displayScore(parsedAny, n) ==
  IF parsedAny.kind = "nonjson" THEN NoScore
  ELSE IF parsedAny.kind = "null" THEN NoScore
  ELSE LET c == IF parsedAny.kind = "arr" THEN sumItems(parsedAny.items, 1, Zero3)
                ELSE IF parsedAny.kind = "obj" THEN objectSums(parsedAny)
                ELSE Zero3
           T == total(c.P, c.Neut, c.Neg, n)
       IN IF T > 0 THEN <<"num", scoreFormula(c.P, c.Neg, T)>> ELSE NoScore

\* index.mjs /fetch: as above, with null guarded ('parsed && typeof ...').
ssrDisplayScore(parsed, n) ==
  IF parsed.kind = "nonjson" THEN NoScore
  ELSE LET c == IF parsed.kind = "arr" THEN sumItems(parsed.items, 1, Zero3)
                ELSE IF parsed.kind = "obj" THEN objectSums(parsed)
                ELSE Zero3
           T == total(c.P, c.Neut, c.Neg, n)
       IN IF T > 0 THEN <<"num", scoreFormula(c.P, c.Neg, T)>> ELSE NoScore

\* logout.js /fetch: the same computation as index.mjs.
htmlDisplayScore(parsed, n) ==
  IF parsed.kind = "nonjson" THEN NoScore
  ELSE LET c == IF parsed.kind = "arr" THEN sumItems(parsed.items, 1, Zero3)
                ELSE IF parsed.kind = "obj" THEN objectSums(parsed)
                ELSE Zero3
           T == total(c.P, c.Neut, c.Neg, n)
       IN IF T > 0 THEN <<"num", scoreFormula(c.P, c.Neg, T)>> ELSE NoScore

(***************************************************************************)
(* The render pipelines. A render call is described by what it did, in     *)
(* order: "load:bg" and "fetch:pfp" are the asset loads, "draw:..." the    *)
(* layers painted on the surface. bgLoad is the outcome of loading the     *)
(* background file ("ok", "missing", "corrupt"), pfpOutcome the outcome of *)
(* the avatar fetch ("ok", "status": a non-OK answer, "throw": the fetch   *)
(* rejects, "decode": the bytes do not decode).                            *)
(***************************************************************************)
BgLoads == {"ok", "missing", "corrupt"}
PfpOutcomes == {"ok", "status", "throw", "decode"}

\* The avatar block without its try/catch: a failure escapes.
avatarLayerUncaught(hasUrl, pfpOutcome) ==
  IF ~hasUrl THEN [threw |-> FALSE, ev |-> <<>>]
  ELSE IF pfpOutcome = "ok" THEN [threw |-> FALSE, ev |-> <<"fetch:pfp", "draw:avatar">>]
  ELSE [threw |-> pfpOutcome \in {"throw", "decode"}, ev |-> <<"fetch:pfp">>]

\* if (profileImageUrl) { try { fetch; if ok: decode, drawImage } catch {} }
avatarLayer(hasUrl, pfpOutcome) ==
  IF ~hasUrl THEN [threw |-> FALSE, ev |-> <<>>]
  ELSE IF pfpOutcome = "ok" THEN [threw |-> FALSE, ev |-> <<"fetch:pfp", "draw:avatar">>]
  ELSE [threw |-> FALSE, ev |-> <<"fetch:pfp">>]

\* server.js renderGaugeBuffer(sess): loadImage(bgPath) is awaited outside
\* any try, so a background that does not load rejects the call.
renderGaugeBuffer(session, e, bgLoad, pfpOutcome) ==
  LET t  == gaugeThresholds(e)
      s  == gaugeScore(session.lastScore)
      bg == gaugeBgFile(s, t)
      av == avatarLayer(session.pfp, pfpOutcome)
  IN IF bgLoad # "ok"
       THEN [ok |-> FALSE, s |-> s, bgFile |-> bg, t |-> t, trace |-> <<"load:bg">>]
     ELSE IF av.threw
       THEN [ok |-> FALSE, s |-> s, bgFile |-> bg, t |-> t,
             trace |-> <<"load:bg", "draw:bg">> \o av.ev]
     ELSE [ok |-> TRUE, s |-> s, bgFile |-> bg, t |-> t,
           trace |-> <<"load:bg", "draw:bg">> \o av.ev
                       \o <<"draw:handle", "draw:needle">>]

\* index.mjs renderCardPNG({score, username, pfpUrl}): a missing background
\* file throws, and so does one loadImage cannot decode.
renderCardPNG(score, hasPfp, e, bgLoad, pfpOutcome) ==
  LET t  == cardThresholds(e)
      s  == cardScore(score)
      bg == cardBgFile(s, t)
      av == avatarLayer(hasPfp, pfpOutcome)
  IN IF bgLoad = "missing"
       THEN [ok |-> FALSE, s |-> s, bgFile |-> bg, t |-> t, trace |-> <<>>]
     ELSE IF bgLoad # "ok"
       THEN [ok |-> FALSE, s |-> s, bgFile |-> bg, t |-> t, trace |-> <<"load:bg">>]
     ELSE IF av.threw
       THEN [ok |-> FALSE, s |-> s, bgFile |-> bg, t |-> t,
             trace |-> <<"load:bg", "draw:bg">> \o av.ev]
     ELSE [ok |-> TRUE, s |-> s, bgFile |-> bg, t |-> t,
           trace |-> <<"load:bg", "draw:bg">> \o av.ev
                       \o <<"draw:handle", "draw:track", "draw:value", "draw:needle">>]

\* logout.js gaugeHtml({score, username, pfpPresent, env}): the page's
\* background selection.
gaugeHtml(score, e) ==
  LET t == htmlThresholds(e)
      s == htmlScore(score)
  IN [s |-> s, bgFile |-> htmlBgFile(s, t), t |-> t]

(***************************************************************************)
(* Bounds of the model and the inputs drawn within them.                   *)
(***************************************************************************)
MaxCount == 2       \* counts of a tally are in 0..MaxCount
MaxItems == 2       \* an array response holds at most MaxItems elements
TWEET_COUNT == 2    \* the configured number of posts to retrieve
MaxPage == 2        \* a page of the post collaborator carries 0..MaxPage posts
PercentTotal == 100 \* T of the tallies that produce every score of [0,100]
MAX_PAGES == 5

\* const desired = Math.max(1, Number(TWEET_COUNT) || 50)
desired == Max(1, IF TWEET_COUNT = 0 THEN 50 ELSE TWEET_COUNT)

Apps == {"express", "ssr", "canvas"}

Num(n) == <<"num", n>>
Missing == <<"missing", 0>>
NotNumber == <<"str", 0>>
ValidFields == { Num(c) : c \in 0..MaxCount }
\* Fields the scorer may get wrong: absent, not a number, a negative count.
BadFields == { Missing, NotNumber, Num(-1) }
AnyFields == ValidFields \cup BadFields

ValidTallies == { Tally(p, u, g) : p \in ValidFields, u \in ValidFields, g \in ValidFields }
AnyTallies == { Tally(p, u, g) : p \in AnyFields, u \in AnyFields, g \in AnyFields }
\* Elements of an array response: tallies of at most MaxCount posts, null,
\* a primitive, and tallies with a field missing or not a number.
Items ==
  { o \in ValidTallies : o.Positive[2] + o.Neutral[2] + o.Negative[2] <= MaxCount }
  \cup { JNull, JPrim, Tally(Missing, Num(1), Num(1)), Tally(Num(1), Num(0), NotNumber) }
Arrays == UNION { { JArray(a) : a \in [1..k -> Items] } : k \in 0..MaxItems }

\* What the webhook's answer parses to.
Bodies == { NonJson, JNull, JPrim } \cup AnyTallies \cup Arrays
\* The POST itself failing (the fetch rejects).
NetFail == [kind |-> "neterror"]

\* The answers used where the session matters and not the arithmetic.
SessionBodies ==
  { NonJson, JNull, NetFail, JArray(<<>>),
    Tally(Num(1), Num(0), Num(0)), Tally(Num(0), Num(0), Num(1)),
    JArray(<<Tally(Num(1), Num(0), Num(0)), Tally(Num(0), Num(1), Num(1))>>) }

\* Tallies that reach every score: P = k, Neg = PercentTotal - k.
PercentBodies == { Tally(Num(k), Num(0), Num(PercentTotal - k)) : k \in 0..PercentTotal }

\* One answer of the post collaborator: HTTP ok or not, the posts of the
\* page, and whether has_next_page and next_cursor are both set.
PageResponses == [ok : BOOLEAN, got : 0..MaxPage, next : BOOLEAN]

\* Raw threshold strings: unset or non-numeric (the default applies),
\* negative, above 100 with a suffix, and a plain value.
StrAbc == <<"a", "b", "c">>
StrNeg5 == <<"-", "5">>
Str150x == <<"1", "5", "0", "x">>
Str50 == <<"5", "0">>
ThreshStrings == { StrAbc, StrNeg5, Str150x, Str50 }
Envs == [THRESH_SB : ThreshStrings, THRESH_B : ThreshStrings,
         THRESH_N : ThreshStrings, THRESH_BU : ThreshStrings]

(***************************************************************************)
(* State.                                                                  *)
(***************************************************************************)
VARIABLES
  app,        \* the deployed entry point: "express", "ssr" or "canvas"
  env,        \* process.env: the raw threshold strings
  scorer,     \* what the scoring webhook answers when its answer is fixed
  sess,       \* express: the signed session cookie the browser holds
  fsUser,     \* ssr, canvas: the fs:user cookie
  fsRender,   \* ssr: the fs:render cookie
  pc,         \* position of the /fetch handler: "idle", "paging", "webhook"
  collected,  \* posts collected so far by the /fetch in flight
  pages,      \* ssr, canvas: pages counted by the /fetch in flight
  cursor,     \* the cursor of the /fetch in flight ("" before the first page)
  res,        \* the response to the latest request, with the inputs it was
              \* computed from ("pending" while /fetch is in flight)
  lastFetch   \* history: displayScore of the session's most recent /fetch

vars == <<app, env, scorer, sess, fsUser, fsRender, pc, collected, pages, cursor, res,
          lastFetch>>

\* let cursor = ""; and the next_cursor values of the post collaborator.
NoCursor == ""
Cursors == {"c1", "c2"}

Undefined == <<"undefined", 0>>
EmptySess == [user |-> FALSE, pfp |-> FALSE, lastScore |-> Undefined]
NoUser == [present |-> FALSE, pfp |-> FALSE]
NoRender == [score |-> Undefined, pfp |-> FALSE]
NoFetch == <<"none", 0>>

InitCommon ==
  /\ fsRender = NoRender
  /\ pc = "idle"
  /\ collected = 0
  /\ pages = 0
  /\ cursor = NoCursor
  /\ res = [route |-> "none"]
  /\ lastFetch = NoFetch

\* A fresh browser, the default configuration.
Init ==
  /\ InitCommon
  /\ app \in Apps
  /\ env = DefaultEnv
  /\ scorer = NonJson
  /\ sess = EmptySess
  /\ fsUser = NoUser

\* Any threshold configuration; a user who has logged in and whose /fetch
\* has collected its posts and awaits the scorer, which answers one of the
\* tallies that produce every score.
InitConfig ==
  /\ app \in Apps
  /\ env \in Envs
  /\ scorer \in PercentBodies
  /\ sess = [EmptySess EXCEPT !.user = (app = "express")]
  /\ fsUser = [NoUser EXCEPT !.present = (app # "express")]
  /\ fsRender = NoRender
  /\ pc = "webhook"
  /\ collected = desired
  /\ pages = 0
  /\ cursor = NoCursor
  /\ res = [route |-> "pending"]
  /\ lastFetch = NoFetch

\* The scorer's answer is drawn once; a user who has just logged in.
InitScore ==
  /\ InitCommon
  /\ app \in {"express", "ssr"}
  /\ env = DefaultEnv
  /\ scorer \in Bodies
  /\ sess = [EmptySess EXCEPT !.user = (app = "express")]
  /\ fsUser = [NoUser EXCEPT !.present = (app # "express")]

(***************************************************************************)
(* src/server.js: the Express routes.                                      *)
(***************************************************************************)
\* GET /callback. outcome: "fail" (state mismatch, token exchange or v2.me()
\* failed: no session is saved), "pfp" / "nopfp" (logged in, with or
\* without a profile picture from the lookup).
ExpressCallback(outcome) ==
  /\ app = "express" /\ pc = "idle"
  /\ IF outcome = "fail"
       THEN /\ res' = [route |-> "callback", status |-> 400]
            /\ UNCHANGED sess
       ELSE /\ sess' = [sess EXCEPT !.user = TRUE, !.pfp = (outcome = "pfp") \/ @]
            /\ res' = [route |-> "callback", status |-> 302]
  /\ UNCHANGED <<cursor, app, env, scorer, fsUser, fsRender, pc, collected, pages, lastFetch>>

\* GET /logout: the session cookie is cleared.
ExpressLogout ==
  /\ app = "express" /\ pc = "idle"
  /\ sess' = EmptySess
  /\ lastFetch' = NoFetch
  /\ res' = [route |-> "logout", status |-> 302]
  /\ UNCHANGED <<cursor, app, env, scorer, fsUser, fsRender, pc, collected, pages>>

\* GET /fetch, up to the first page request.
ExpressFetchBegin ==
  /\ app = "express" /\ pc = "idle"
  /\ IF ~sess.user
       THEN /\ res' = [route |-> "fetch", status |-> 302, page |-> "login"]
            /\ UNCHANGED <<pc, collected, pages, cursor>>
       ELSE /\ pc' = "paging"
            /\ collected' = 0
            /\ pages' = 0
            /\ cursor' = NoCursor
            /\ res' = [route |-> "pending"]
  /\ UNCHANGED <<app, env, scorer, sess, fsUser, fsRender, lastFetch>>

\* One turn of while (collected.length < desired): a non-OK answer throws to
\* the handler's catch (500); the loop has no page cap and does not stop on
\* an empty page.
ExpressFetchPage(page) ==
  /\ app = "express" /\ pc = "paging"
  /\ IF ~page.ok
       THEN /\ res' = [route |-> "fetch", status |-> 500, page |-> "error"]
            /\ pc' = "idle"
            /\ lastFetch' = <<"error", 0>>
            /\ UNCHANGED collected
       ELSE /\ collected' = collected + page.got
            /\ pc' = IF ~page.next \/ collected' >= desired THEN "webhook" ELSE "paging"
            /\ UNCHANGED <<res, lastFetch>>
  /\ cursor' \in (IF pc' = "paging" THEN Cursors ELSE {NoCursor})
  /\ UNCHANGED <<app, env, scorer, sess, fsUser, fsRender, pages>>

\* The rest of /fetch: POST to the webhook, compute displayScore, save it as
\* sess.lastScore, answer.
ExpressFetchWebhook(body) ==
  /\ app = "express" /\ pc = "webhook"
  /\ pc' = "idle"
  /\ LET n == Min(collected, desired)
     IN IF body = NetFail
          THEN /\ res' = [route |-> "fetch", status |-> 500, page |-> "error"]
               /\ lastFetch' = <<"error", 0>>
               /\ UNCHANGED sess
          ELSE LET d == displayScore(body, n)
               IN /\ sess' = [sess EXCEPT !.lastScore = d]
                  /\ lastFetch' = d
                  /\ res' = [route |-> "fetch",
                             status |-> IF d = NoScore THEN 200 ELSE 302,
                             page |-> IF d = NoScore THEN "debug" ELSE "preview",
                             body |-> body, n |-> n, displayScore |-> d]
  /\ UNCHANGED <<cursor, app, env, scorer, fsUser, fsRender, collected, pages>>

\* GET /gauge: renderGaugeBuffer(req.sess); a rejected render answers 500.
ExpressGauge(bgLoad, pfpOutcome) ==
  /\ app = "express" /\ pc = "idle"
  /\ IF ~sess.user
       THEN res' = [route |-> "gauge", status |-> 302]
       ELSE LET r == renderGaugeBuffer(sess, env, bgLoad, pfpOutcome)
            IN res' = [route |-> "gauge", status |-> IF r.ok THEN 200 ELSE 500,
                       lastScore |-> sess.lastScore, hasPfp |-> sess.pfp,
                       bgLoad |-> bgLoad,
                       pfpOutcome |-> IF sess.pfp THEN pfpOutcome ELSE "none",
                       s |-> r.s, bgFile |-> r.bgFile, t |-> r.t, trace |-> r.trace]
  /\ UNCHANGED <<cursor, app, env, scorer, sess, fsUser, fsRender, pc, collected, pages, lastFetch>>

(***************************************************************************)
(* src/api/index.mjs: the serverless handler that renders the card as PNG. *)
(***************************************************************************)
\* /callback: on success the fs:user cookie is set.
SsrCallback(outcome) ==
  /\ app = "ssr" /\ pc = "idle"
  /\ IF outcome = "fail"
       THEN /\ res' = [route |-> "callback", status |-> 400]
            /\ UNCHANGED fsUser
       ELSE /\ fsUser' = [present |-> TRUE, pfp |-> (outcome = "pfp")]
            /\ res' = [route |-> "callback", status |-> 302]
  /\ UNCHANGED <<cursor, app, env, scorer, sess, fsRender, pc, collected, pages, lastFetch>>

\* /logout: fs:user and fs:render are cleared.
SsrLogout ==
  /\ app = "ssr" /\ pc = "idle"
  /\ fsUser' = NoUser
  /\ fsRender' = NoRender
  /\ lastFetch' = NoFetch
  /\ res' = [route |-> "logout", status |-> 302]
  /\ UNCHANGED <<cursor, app, env, scorer, sess, pc, collected, pages>>

\* /fetch, up to the first page request.
SsrFetchBegin ==
  /\ app = "ssr" /\ pc = "idle"
  /\ IF ~fsUser.present
       THEN /\ res' = [route |-> "fetch", status |-> 302, page |-> "home"]
            /\ UNCHANGED <<pc, collected, pages, cursor>>
       ELSE /\ pc' = "paging"
            /\ collected' = 0
            /\ pages' = 0
            /\ cursor' = NoCursor
            /\ res' = [route |-> "pending"]
  /\ UNCHANGED <<app, env, scorer, sess, fsUser, fsRender, lastFetch>>

\* One turn of the page loop: a non-OK answer is caught and the handler
\* goes on with what it has; an empty page, a missing cursor and MAX_PAGES
\* each end the loop.
SsrFetchPage(page) ==
  /\ app = "ssr" /\ pc = "paging"
  /\ IF ~page.ok \/ page.got = 0
       THEN /\ pc' = "webhook"
            /\ UNCHANGED <<collected, pages>>
       ELSE /\ collected' = collected + page.got
            /\ pages' = IF page.next THEN pages + 1 ELSE pages
            /\ pc' = IF ~page.next \/ pages' >= MAX_PAGES \/ collected' >= desired
                       THEN "webhook" ELSE "paging"
  /\ cursor' \in (IF pc' = "paging" THEN Cursors ELSE {NoCursor})
  /\ UNCHANGED <<app, env, scorer, sess, fsUser, fsRender, res, lastFetch>>

\* The rest of /fetch: the webhook POST (a failure is caught, no score),
\* displayScore, and the fs:render cookie, which is set only when there is
\* a score.
SsrFetchWebhook(body) ==
  /\ app = "ssr" /\ pc = "webhook"
  /\ pc' = "idle"
  /\ LET n == Min(collected, desired)
         d == IF body = NetFail THEN NoScore ELSE ssrDisplayScore(body, n)
     IN /\ fsRender' = IF d # NoScore THEN [score |-> d, pfp |-> fsUser.pfp]
                                      ELSE fsRender
        /\ lastFetch' = d
        /\ res' = [route |-> "fetch", status |-> 200,
                   page |-> IF d = NoScore THEN "debug" ELSE "gauge",
                   body |-> body, n |-> n, displayScore |-> d]
  /\ UNCHANGED <<cursor, app, env, scorer, sess, fsUser, collected, pages>>

\* /card.png: 400 without a render cookie holding a number, else
\* renderCardPNG; a throwing render answers 500.
SsrCardPng(bgLoad, pfpOutcome) ==
  /\ app = "ssr" /\ pc = "idle"
  /\ IF fsRender.score[1] # "num"
       THEN res' = [route |-> "card", status |-> 400]
       ELSE LET r == renderCardPNG(fsRender.score, fsRender.pfp, env, bgLoad, pfpOutcome)
            IN res' = [route |-> "card", status |-> IF r.ok THEN 200 ELSE 500,
                       lastScore |-> fsRender.score, hasPfp |-> fsRender.pfp,
                       bgLoad |-> bgLoad,
                       pfpOutcome |-> IF fsRender.pfp THEN pfpOutcome ELSE "none",
                       s |-> r.s, bgFile |-> r.bgFile, t |-> r.t, trace |-> r.trace]
  /\ UNCHANGED <<cursor, app, env, scorer, sess, fsUser, fsRender, pc, collected, pages, lastFetch>>

(***************************************************************************)
(* src/api/logout.js: the serverless handler whose /fetch answers the      *)
(* client-canvas page built by gaugeHtml.                                  *)
(***************************************************************************)
CanvasCallback(outcome) ==
  /\ app = "canvas" /\ pc = "idle"
  /\ IF outcome = "fail"
       THEN /\ res' = [route |-> "callback", status |-> 400]
            /\ UNCHANGED fsUser
       ELSE /\ fsUser' = [present |-> TRUE, pfp |-> (outcome = "pfp")]
            /\ res' = [route |-> "callback", status |-> 302]
  /\ UNCHANGED <<cursor, app, env, scorer, sess, fsRender, pc, collected, pages, lastFetch>>

CanvasLogout ==
  /\ app = "canvas" /\ pc = "idle"
  /\ fsUser' = NoUser
  /\ lastFetch' = NoFetch
  /\ res' = [route |-> "logout", status |-> 302]
  /\ UNCHANGED <<cursor, app, env, scorer, sess, fsRender, pc, collected, pages>>

CanvasFetchBegin ==
  /\ app = "canvas" /\ pc = "idle"
  /\ IF ~fsUser.present
       THEN /\ res' = [route |-> "fetch", status |-> 302, page |-> "home"]
            /\ UNCHANGED <<pc, collected, pages, cursor>>
       ELSE /\ pc' = "paging"
            /\ collected' = 0
            /\ pages' = 0
            /\ cursor' = NoCursor
            /\ res' = [route |-> "pending"]
  /\ UNCHANGED <<app, env, scorer, sess, fsUser, fsRender, lastFetch>>

CanvasFetchPage(page) ==
  /\ app = "canvas" /\ pc = "paging"
  /\ IF ~page.ok \/ page.got = 0
       THEN /\ pc' = "webhook"
            /\ UNCHANGED <<collected, pages>>
       ELSE /\ collected' = collected + page.got
            /\ pages' = IF page.next THEN pages + 1 ELSE pages
            /\ pc' = IF ~page.next \/ pages' >= MAX_PAGES \/ collected' >= desired
                       THEN "webhook" ELSE "paging"
  /\ cursor' \in (IF pc' = "paging" THEN Cursors ELSE {NoCursor})
  /\ UNCHANGED <<app, env, scorer, sess, fsUser, fsRender, res, lastFetch>>

\* The rest of /fetch: with a score the answer is gaugeHtml's page, built
\* from the env block of thresholds.
CanvasFetchWebhook(body) ==
  /\ app = "canvas" /\ pc = "webhook"
  /\ pc' = "idle"
  /\ LET n == Min(collected, desired)
         d == IF body = NetFail THEN NoScore ELSE htmlDisplayScore(body, n)
     IN /\ lastFetch' = d
        /\ res' = IF d = NoScore
                    THEN [route |-> "fetch", status |-> 200, page |-> "debug",
                          body |-> body, n |-> n, displayScore |-> d]
                    ELSE LET g == gaugeHtml(d[2], env)
                         IN [route |-> "fetch", status |-> 200, page |-> "canvas",
                             body |-> body, n |-> n, displayScore |-> d,
                             s |-> g.s, bgFile |-> g.bgFile, t |-> g.t]
  /\ UNCHANGED <<cursor, app, env, scorer, sess, fsUser, fsRender, collected, pages>>

(***************************************************************************)
(* Specifications.                                                         *)
(***************************************************************************)
CallbackOutcomes == {"fail", "pfp", "nopfp"}

\* Every route of the three entry points, any collaborator answers.
Next ==
  \/ \E o \in CallbackOutcomes : ExpressCallback(o)
  \/ ExpressLogout
  \/ ExpressFetchBegin
  \/ \E p \in PageResponses : ExpressFetchPage(p)
  \/ \E b \in SessionBodies : ExpressFetchWebhook(b)
  \/ \E bg \in BgLoads, pf \in PfpOutcomes : ExpressGauge(bg, pf)
  \/ \E o \in CallbackOutcomes : SsrCallback(o)
  \/ SsrLogout
  \/ SsrFetchBegin
  \/ \E p \in PageResponses : SsrFetchPage(p)
  \/ \E b \in SessionBodies : SsrFetchWebhook(b)
  \/ \E bg \in BgLoads, pf \in PfpOutcomes : SsrCardPng(bg, pf)
  \/ \E o \in CallbackOutcomes : CanvasCallback(o)
  \/ CanvasLogout
  \/ CanvasFetchBegin
  \/ \E p \in PageResponses : CanvasFetchPage(p)
  \/ \E b \in SessionBodies : CanvasFetchWebhook(b)

Spec == Init /\ [][Next]_vars

\* The score and render routes under every threshold configuration;
\* assets load.
NextConfig ==
  \/ ExpressFetchWebhook(scorer)
  \/ ExpressGauge("ok", "ok")
  \/ SsrFetchWebhook(scorer)
  \/ SsrCardPng("ok", "ok")
  \/ CanvasFetchWebhook(scorer)

SpecConfig == InitConfig /\ [][NextConfig]_vars

\* /fetch of server.js and index.mjs against every answer of the scorer.
SinglePages == { p \in PageResponses : p.ok /\ ~p.next }

NextScore ==
  \/ ExpressFetchBegin
  \/ \E p \in SinglePages : ExpressFetchPage(p)
  \/ ExpressFetchWebhook(scorer)
  \/ SsrFetchBegin
  \/ \E p \in SinglePages : SsrFetchPage(p)
  \/ SsrFetchWebhook(scorer)

SpecScore == InitScore /\ [][NextScore]_vars

(***************************************************************************)
(* Vocabulary of the properties.                                           *)
(***************************************************************************)
\* The response is one of /fetch that got as far as scoring a body.
Scored == res.route = "fetch" /\ res.page \in {"preview", "debug", "gauge", "canvas"}

IsCount(f) == f[1] = "num" /\ f[2] >= 0
IsValidTally(o) ==
  o.kind = "obj" /\ IsCount(o.Positive) /\ IsCount(o.Neutral) /\ IsCount(o.Negative)
\* A single valid tally, or a sequence of valid tallies.
IsValidBody(b) ==
  \/ IsValidTally(b)
  \/ b.kind = "arr" /\ \A i \in 1..Len(b.items) : IsValidTally(b.items[i])

RECURSIVE SeqSum(_)
SeqSum(q) == IF q = <<>> THEN 0 ELSE Head(q) + SeqSum(Tail(q))

\* Sigma positive, Sigma neutral, Sigma negative of a valid body.
SumP(b) == IF b.kind = "obj" THEN b.Positive[2]
           ELSE SeqSum([i \in 1..Len(b.items) |-> b.items[i].Positive[2]])
SumNeu(b) == IF b.kind = "obj" THEN b.Neutral[2]
             ELSE SeqSum([i \in 1..Len(b.items) |-> b.items[i].Neutral[2]])
SumNeg(b) == IF b.kind = "obj" THEN b.Negative[2]
             ELSE SeqSum([i \in 1..Len(b.items) |-> b.items[i].Negative[2]])
SumT(b) == SumP(b) + SumNeu(b) + SumNeg(b)

\* C1: for a response of valid (non-negative integer) tallies with T > 0,
\* /fetch computes a score, and it is an integer of [0,100].
C1_ScoreInRange ==
  (Scored /\ IsValidBody(res.body) /\ SumT(res.body) > 0)
    => /\ res.displayScore[1] = "num"
       /\ res.displayScore[2] \in 0..100

\* A rounded score strictly inside the range: P = 0, Neu = 1, Neg = 2.
C1_Witness ==
  /\ Scored /\ IsValidBody(res.body)
  /\ SumT(res.body) = 3 /\ SumP(res.body) = 0 /\ SumNeu(res.body) = 1
  /\ res.displayScore = Num(17)

\* C2: all counts positive score 100, all negative 0, all neutral 50.
C2_PolarScores ==
  (Scored /\ IsValidBody(res.body) /\ SumT(res.body) > 0)
    => /\ SumP(res.body) = SumT(res.body) => res.displayScore = Num(100)
       /\ SumNeg(res.body) = SumT(res.body) => res.displayScore = Num(0)
       /\ SumNeu(res.body) = SumT(res.body) => res.displayScore = Num(50)

C2_Witness ==
  /\ Scored /\ IsValidBody(res.body)
  /\ SumNeu(res.body) = 2 /\ SumT(res.body) = 2
  /\ res.displayScore = Num(50)

\* The single object that merges the two tallies of a pair.
Merged(a, b) ==
  Tally(Num(a.Positive[2] + b.Positive[2]), Num(a.Neutral[2] + b.Neutral[2]),
        Num(a.Negative[2] + b.Negative[2]))

\* What the /fetch of the deployed entry point computes for a body.
ScoreOf(b, n) ==
  IF app = "express" THEN displayScore(b, n)
  ELSE IF app = "ssr" THEN ssrDisplayScore(b, n)
  ELSE htmlDisplayScore(b, n)

\* C3: the score of the array response [a, b] is the score of the merged
\* single object, the number of submitted posts being the same.
C3_Additive ==
  (Scored /\ res.body.kind = "arr" /\ Len(res.body.items) = 2 /\ IsValidBody(res.body))
    => res.displayScore = ScoreOf(Merged(res.body.items[1], res.body.items[2]), res.n)

C3_Witness ==
  /\ Scored /\ res.body.kind = "arr" /\ Len(res.body.items) = 2 /\ IsValidBody(res.body)
  /\ SumT(res.body.items[1]) > 0 /\ SumT(res.body.items[2]) > 0
  /\ res.body.items[1] # res.body.items[2]
  /\ SumP(res.body) = 2 /\ SumNeg(res.body) = 1
  /\ res.displayScore[1] = "num"

\* C4: tallies that sum to 0 and no post submitted: no score, the debug
\* page, never a number.
C4_NoScore ==
  (Scored /\ IsValidBody(res.body) /\ SumT(res.body) = 0 /\ res.n = 0)
    => res.displayScore = NoScore /\ res.page = "debug"

C4_Witness ==
  /\ Scored /\ res.body = Tally(Num(0), Num(0), Num(0)) /\ res.n = 0
  /\ res.displayScore = NoScore

\* A response that carries a classified gauge: the PNG of /gauge or of
\* /card.png, or the canvas page /fetch of logout.js answers with.
IsPng == res.route \in {"gauge", "card"} /\ res.status = 200
IsCanvasPage == res.route = "fetch" /\ res.page = "canvas"
Rendered == IsPng \/ IsCanvasPage

\* A render of /gauge or /card.png was attempted (the route's guard passed).
RenderTried == res.route \in {"gauge", "card"} /\ res.status \in {200, 500}

InTrace(e) == \E i \in 1..Len(res.trace) : res.trace[i] = e
Before(e, f) ==
  \E i, j \in 1..Len(res.trace) : i < j /\ res.trace[i] = e /\ res.trace[j] = f

\* C5: server.js: when the most recent /fetch of the session computed no
\* score, or none ran, GET /gauge answers no gauge image.
C5_NoGaugeWithoutScore ==
  (res.route = "gauge" /\ lastFetch[1] \in {"none", "null"}) => res.status # 200

DefaultThresholds == [tSB |-> 20, tB |-> 40, tN |-> 60, tBU |-> 80]

Monotone(t) ==
  0 <= t.tSB /\ t.tSB <= t.tB /\ t.tB <= t.tN /\ t.tN <= t.tBU /\ t.tBU <= 100

\* C6: with non-decreasing thresholds in [0,100] and a score in [0,100] the
\* background is the one of the band the score lies in; 100 is always
\* strongly-bullish, and 0 is strongly-bearish under the defaults.
C6_Classification ==
  (Rendered /\ Monotone(res.t) /\ res.s \in 0..100)
    => LET s == res.s
           t == res.t
           bg == res.bgFile
       IN /\ bg \in BgFiles
          /\ bg = "strongly-bearish.png" <=> s < t.tSB
          /\ bg = "bearish.png" <=> (t.tSB <= s /\ s < t.tB)
          /\ bg = "neutral.png" <=> (t.tB <= s /\ s < t.tN)
          /\ bg = "bullish.png" <=> (t.tN <= s /\ s < t.tBU)
          /\ bg = "strongly-bullish.png" <=> s >= t.tBU
          /\ s = 100 => bg = "strongly-bullish.png"
          /\ (s = 0 /\ t = DefaultThresholds) => bg = "strongly-bearish.png"

\* Collapsed lower bands: a score on the doubled threshold is neutral.
C6_Witness ==
  /\ IsPng /\ res.route = "gauge"
  /\ res.t.tSB = res.t.tB /\ res.t.tB < res.t.tN
  /\ res.s = res.t.tB /\ res.bgFile = "neutral.png"

Th(t, i) == <<0, t.tSB, t.tB, t.tN, t.tBU, 101>>[i + 1]
BandName(i) ==
  <<"strongly-bearish.png", "bearish.png", "neutral.png", "bullish.png",
    "strongly-bullish.png">>[i + 1]
BgOf(s, t) == IF res.route = "gauge" THEN gaugeBgFile(s, t) ELSE cardBgFile(s, t)

\* C7: a score on a threshold ti > 0 whose two adjacent bands are not empty
\* gets the background of the band that starts at ti, and the score ti - 1
\* gets another one (the band below).
C7_BoundaryInclusive ==
  IsPng =>
    \A i \in 1..4 :
      (/\ Th(res.t, i) > 0
       /\ Th(res.t, i - 1) < Th(res.t, i) /\ Th(res.t, i) < Th(res.t, i + 1)
       /\ res.s = Th(res.t, i))
        => /\ res.bgFile = BandName(i)
           /\ BgOf(res.s - 1, res.t) = BandName(i - 1)
           /\ BgOf(res.s - 1, res.t) # res.bgFile

\* Score 20 under the default thresholds.
C7_Witness ==
  /\ IsPng /\ res.route = "gauge"
  /\ res.t = DefaultThresholds
  /\ res.s = 20 /\ res.bgFile = "bearish.png"

\* C8: whatever the raw threshold strings, every render path classifies
\* with thresholds in [0,100] that are non-decreasing.
C8_ThresholdsNormalized == Rendered => Monotone(res.t)

\* C9: a background that does not load does not fail the render: an image
\* is answered and the layers after the background are drawn.
C9_BackgroundFailureNonFatal ==
  (RenderTried /\ res.bgLoad # "ok")
    => res.status = 200 /\ InTrace("draw:handle") /\ InTrace("draw:needle")

\* C10: an avatar that cannot be fetched or decoded does not fail the
\* render: the image is answered, no avatar is drawn, and the handle and
\* the needle are drawn after the attempt.
C10_AvatarFailureNonFatal ==
  (RenderTried /\ res.bgLoad = "ok" /\ res.hasPfp /\ res.pfpOutcome # "ok")
    => /\ res.status = 200
       /\ ~InTrace("draw:avatar")
       /\ Before("fetch:pfp", "draw:handle")
       /\ Before("draw:handle", "draw:needle")

C10_Witness ==
  /\ RenderTried /\ res.route = "gauge" /\ res.bgLoad = "ok"
  /\ res.hasPfp /\ res.pfpOutcome = "decode"
  /\ res.status = 200 /\ InTrace("draw:needle")

\* C11: every completed render paints background, avatar (if present),
\* handle, track, value arc, needle, in this order; the track and the value
\* arc are drawn, before the needle, in every backend.
C11_DrawOrder ==
  IsPng =>
    /\ Before("draw:bg", "draw:handle")
    /\ InTrace("draw:avatar") =>
         Before("draw:bg", "draw:avatar") /\ Before("draw:avatar", "draw:handle")
    /\ Before("draw:handle", "draw:track")
    /\ Before("draw:track", "draw:value")
    /\ Before("draw:value", "draw:needle")

(***************************************************************************)
(* Gauge geometry.  Lengths that the code keeps as halves of pixels are    *)
(* carried doubled (suffix 2: r2 is 2 * r); the rescaled needle radii are  *)
(* carried in 1/400 pixel, since the length scale is a decimal number of   *)
(* hundredths.  A raw decimal setting is the value Number() gives for it:  *)
(* NaN, or a number of hundredths (length scale) or thousandths (width     *)
(* fraction).                                                              *)
(***************************************************************************)
NaN == [nan |-> TRUE, n |-> 0]
Dec(n) == [nan |-> FALSE, n |-> n]

\* Number(v) || d: NaN and 0 are falsy.
NumberOr(v, d) == IF v.nan \/ v.n = 0 THEN d ELSE v.n

Str0 == <<"0">>
Str500 == <<"5", "0", "0">>

\* process.env defaults of the layout and needle settings, with the
\* thresholds of DefaultEnv.
DefaultLayoutEnv ==
  [THRESH_SB |-> Str20, THRESH_B |-> Str40, THRESH_N |-> Str60, THRESH_BU |-> Str80,
   GAUGE_LEFT |-> Str500, GAUGE_RIGHT |-> Str500,
   GAUGE_TOP |-> <<"1", "0", "0">>, GAUGE_BOTTOM |-> <<"4", "0", "0">>,
   NEEDLE_LEN_SCALE |-> Dec(100), NEEDLE_WIDTH_FRAC |-> Dec(25)]

\* const rect = { x, y, w, h } for a surface of W x H pixels.
gaugeRect(W, H, e) ==
  LET envLeft   == intish(e.GAUGE_LEFT, 0)
      envRight  == intish(e.GAUGE_RIGHT, 0)
      envTop    == intish(e.GAUGE_TOP, 0)
      envBottom == intish(e.GAUGE_BOTTOM, 0)
  IN [x |-> envLeft, y |-> envTop,
      w |-> Max(0, W - envLeft - envRight),
      h |-> Max(0, H - envTop - envBottom)]

\* A radius kept to at least half a pixel only.
gaugeRadiusHalfFloor2(rect) == Max(1, Min(rect.w, 2 * rect.h))

\* const r = Math.max(1, Math.min(rect.w/2, rect.h)), doubled.
gaugeRadius2(rect) == Max(2, Min(rect.w, 2 * rect.h))

\* const cx = Math.round(rect.x + rect.w / 2)
gaugeCx(rect) == MathRound(2 * rect.x + rect.w, 2)

\* const cy = Math.round(rect.y + rect.h)
gaugeCy(rect) == rect.y + rect.h

\* Math.max(6, Math.round(r * 0.11))
trackWidth(r2) == Max(6, MathRound(11 * r2, 200))

\* Math.max(4, Math.round(r * 0.08))
valueWidth(r2) == Max(4, MathRound(8 * r2, 200))

\* Math.max(0.1, Number(NEEDLE_LEN_SCALE) || 1.0), in hundredths.
needleScale(e) == Max(10, NumberOr(e.NEEDLE_LEN_SCALE, 100))

\* Math.max(0.003, Number(NEEDLE_WIDTH_FRAC) || 0.025), in thousandths.
needleWidthFrac(e) == Max(3, NumberOr(e.NEEDLE_WIDTH_FRAC, 25))

\* The length scale and width fraction the page of logout.js writes into
\* drawNeedle: Number(NEEDLE_LEN_SCALE) || 1 and
\* Number(NEEDLE_WIDTH_FRAC) || 0.025, with no lower bound.
htmlNeedleScale(e) == NumberOr(e.NEEDLE_LEN_SCALE, 100)
htmlNeedleWidthFrac(e) == NumberOr(e.NEEDLE_WIDTH_FRAC, 25)

\* r1d = r - Math.max(10, Math.round(r * 0.30)), doubled.
needleInner2(r2) == r2 - 2 * Max(10, MathRound(3 * r2, 20))

\* r2d = r + Math.max(8, Math.round(r * 0.05)), doubled.
needleOuter2(r2) == r2 + 2 * Max(8, MathRound(r2, 40))

\* A slip that rescales the needle around its inner end.
needleRadiiFromInner(r2, k100) ==
  LET r1d2 == needleInner2(r2)
      r2d2 == needleOuter2(r2)
  IN [r1 |-> 200 * r1d2, r2 |-> 200 * r1d2 + 2 * (r2d2 - r1d2) * k100]

\* mid = (r1d + r2d) / 2; half = (r2d - r1d) / 2; halfNew = half * scale;
\* r1 = mid - halfNew; r2 = mid + halfNew.  In 1/400 pixel, exactly; the
\* doubles of the code are exact for scales 1 and 2 and within one unit in
\* the last place otherwise.
needleRadii(r2, k100) ==
  LET r1d2 == needleInner2(r2)
      r2d2 == needleOuter2(r2)
      mid4 == r1d2 + r2d2
      half4 == r2d2 - r1d2
      halfNew400 == half4 * k100
  IN [r1 |-> 100 * mid4 - halfNew400, r2 |-> 100 * mid4 + halfNew400]

\* ctx.lineWidth = Math.max(2, Math.round(r * needleWidthFrac))
needleLineWidth(r2, f1000) == Max(2, MathRound(r2 * f1000, 2000))

(***************************************************************************)
(* Angles are measured from start = Math.PI, in units of which HalfTurn    *)
(* make the half circle up to end = 2 * Math.PI, so that score / 100 of    *)
(* the span and segs-ths of it are whole numbers of units.  capAngle, a    *)
(* number of radians in the code, is taken to the unit grid below it       *)
(* (pi as 355/113).                                                        *)
(***************************************************************************)
AngleRes == 100
segs == 24
HalfTurn == 100 * segs * AngleRes

\* A sweep that runs from end back to start.
thetaEndReversed(s) == ((100 - s) * HalfTurn) \div 100

\* const thetaEnd = start + (s / 100) * (end - start); also the needle angle a.
thetaEnd(s) == (s * HalfTurn) \div 100

\* const capAngle = (valueW / 2) / r
capAngle(r2) ==
  segs * ((valueWidth(r2) * 113 * (HalfTurn \div segs)) \div (r2 * 355))

\* The 1e-4 rad added to the start of the conic gradient.
gradEpsilon == (HalfTurn * 113) \div (355 * 10000)

C_RED == <<217, 83, 79>>
C_ORG == <<240, 173, 78>>
C_GRN == <<92, 184, 92>>

\* colAt(t) for t = i / segs: one channel list, each channel times segs.
colAt(i) ==
  IF 2 * i <= segs
    THEN [c \in 1..3 |-> C_RED[c] * segs + (C_ORG[c] - C_RED[c]) * (2 * i)]
    ELSE [c \in 1..3 |-> C_ORG[c] * segs + (C_GRN[c] - C_ORG[c]) * (2 * i - segs)]

\* A slice painted in the ramp colour of its first end.
strokeColourFirstEnd(c1, c2) == [c \in 1..3 |-> MathRound(c1[c], segs)]

\* strokeArc: Math.round((r0 + r1) / 2) for each channel.
strokeColour(c1, c2) == [c \in 1..3 |-> MathRound(c1[c] + c2[c], 2 * segs)]

\* A slice loop that does not cut the last slice at thetaEnd.
RECURSIVE sliceLoopUnclipped(_, _, _, _)
sliceLoopUnclipped(i, cap, tEnd, width) ==
  IF i >= segs \/ cap + (i * (HalfTurn - cap)) \div segs >= tEnd THEN <<>>
  ELSE <<[op |-> "slice", i |-> i, a0 |-> cap + (i * (HalfTurn - cap)) \div segs,
          a1 |-> cap + ((i + 1) * (HalfTurn - cap)) \div segs,
          colour |-> strokeColour(colAt(i), colAt(i + 1)), width |-> width]>>
       \o (IF cap + ((i + 1) * (HalfTurn - cap)) \div segs >= tEnd THEN <<>>
           ELSE sliceLoopUnclipped(i + 1, cap, tEnd, width))

\* The slice loop of renderCardPNG from iteration i on.
RECURSIVE sliceLoop(_, _, _, _)
sliceLoop(i, cap, tEnd, width) ==
  IF i >= segs THEN <<>>
  ELSE LET span == HalfTurn - cap
           a0 == cap + (i * span) \div segs
           a1 == cap + ((i + 1) * span) \div segs
       IN IF a0 >= tEnd THEN <<>>
          ELSE <<[op |-> "slice", i |-> i, a0 |-> a0, a1 |-> Min(a1, tEnd),
                  colour |-> strokeColour(colAt(i), colAt(i + 1)),
                  width |-> width]>>
               \o (IF a1 >= tEnd THEN <<>> ELSE sliceLoop(i + 1, cap, tEnd, width))

\* A cap segment that is not cut at thetaEnd.
cardValueOpsFullCap(s, r2) ==
  <<[op |-> "cap", a0 |-> 0, a1 |-> capAngle(r2), colour |-> C_RED,
     width |-> valueWidth(r2)]>>
  \o (IF thetaEnd(s) > capAngle(r2)
        THEN sliceLoop(0, capAngle(r2), thetaEnd(s), valueWidth(r2)) ELSE <<>>)

\* renderCardPNG: the value arc, cap segment then slices.
cardValueOps(s, r2) ==
  LET tEnd == thetaEnd(s)
      cap == capAngle(r2)
      w == valueWidth(r2)
  IN <<[op |-> "cap", a0 |-> 0, a1 |-> Min(tEnd, cap), colour |-> C_RED, width |-> w]>>
     \o (IF tEnd > cap THEN sliceLoop(0, cap, tEnd, w) ELSE <<>>)

\* drawValue of the client script of logout.js, the browser having
\* createConicGradient.
htmlValueOps(s, r2) ==
  LET tEnd == thetaEnd(s)
      cap == capAngle(r2)
      w == valueWidth(r2)
  IN IF tEnd <= cap
       THEN <<[op |-> "cap", a0 |-> 0, a1 |-> tEnd, colour |-> C_RED, width |-> w]>>
       ELSE <<[op |-> "cap", a0 |-> 0, a1 |-> cap, colour |-> C_RED, width |-> w],
              [op |-> "conic", a0 |-> cap, a1 |-> tEnd,
               gradStart |-> cap + gradEpsilon,
               stops |-> <<[at |-> 0, colour |-> C_RED], [at |-> 50, colour |-> C_ORG],
                           [at |-> 100, colour |-> C_GRN]>>,
               width |-> w]>>

\* ctx.arc(cx, cy, r, start, end, false) with the track stroke.
trackOp(cx, cy, r2) ==
  [op |-> "track", cx |-> cx, cy |-> cy, r2 |-> r2, a0 |-> 0, a1 |-> HalfTurn,
   width |-> trackWidth(r2)]

\* moveTo(x1, y1); lineTo(x2, y2): the needle by its centre, angle and radii.
needleOp(cx, cy, s, radii, width) ==
  [op |-> "needle", cx |-> cx, cy |-> cy, a |-> thetaEnd(s),
   r1 |-> radii.r1, r2 |-> radii.r2, width |-> width]

\* Math.cos(a) and Math.sin(a) by their sign, for a = start + u with u in
\* 0..HalfTurn units (the doubles differ from 0 by less than 1e-15 where the
\* exact value is 0).
cosSign(u) ==
  IF 2 * u < HalfTurn THEN 0 - 1 ELSE IF 2 * u = HalfTurn THEN 0 ELSE 1
sinSign(u) == IF u = 0 \/ u = HalfTurn THEN 0 ELSE 0 - 1
Sign(x) == IF x > 0 THEN 1 ELSE IF x = 0 THEN 0 ELSE 0 - 1

\* x2 - cx = Math.cos(a) * r2 and y2 - cy = Math.sin(a) * r2 by their sign;
\* the y axis of the canvas points down the image.
needleTip(n) ==
  [dx |-> cosSign(n.a) * Sign(n.r2), dy |-> sinSign(n.a) * Sign(n.r2)]

(***************************************************************************)
(* The draw operations of one render, in the order they are issued.  The   *)
(* wall clock of the call is in scope of each function (Date is a global); *)
(* no drawing statement reads it.                                          *)
(***************************************************************************)
avatarOps(hasPfp, pfpOutcome) ==
  IF hasPfp /\ pfpOutcome = "ok" THEN <<[op |-> "avatar"]>> ELSE <<>>

\* The needle statement of a render that reads the clock.
needleOpJitter(cx, cy, s, radii, width, clock) ==
  [op |-> "needle", cx |-> cx, cy |-> cy, a |-> thetaEnd(s) + clock,
   r1 |-> radii.r1, r2 |-> radii.r2, width |-> width]

\* The needle statement of a render.
needleOpAt(cx, cy, s, radii, width, clock) == needleOp(cx, cy, s, radii, width)

\* server.js renderGaugeBuffer, the background of W x H pixels loaded.
gaugeOps(s, hasPfp, pfpOutcome, e, W, H, clock) ==
  LET rect == gaugeRect(W, H, e)
      r2 == gaugeRadius2(rect)
      cx == gaugeCx(rect)
      cy == gaugeCy(rect)
  IN <<[op |-> "background", w |-> W, h |-> H]>>
     \o avatarOps(hasPfp, pfpOutcome)
     \o <<[op |-> "handle"]>>
     \o <<needleOpAt(cx, cy, s, needleRadii(r2, needleScale(e)),
                     needleLineWidth(r2, needleWidthFrac(e)), clock)>>

\* index.mjs renderCardPNG, the background of W x H pixels loaded.
cardOps(s, hasPfp, pfpOutcome, e, W, H, clock) ==
  LET rect == gaugeRect(W, H, e)
      r2 == gaugeRadius2(rect)
      cx == gaugeCx(rect)
      cy == gaugeCy(rect)
  IN <<[op |-> "background", w |-> W, h |-> H]>>
     \o avatarOps(hasPfp, pfpOutcome)
     \o <<[op |-> "handle"]>>
     \o <<trackOp(cx, cy, r2)>>
     \o cardValueOps(s, r2)
     \o <<needleOpAt(cx, cy, s, needleRadii(r2, needleScale(e)),
                     needleLineWidth(r2, needleWidthFrac(e)), clock)>>

\* logout.js: the script of the page gaugeHtml answers, run by the browser
\* on a background of W x H pixels.
htmlOps(s, hasPfp, pfpOutcome, e, W, H, clock) ==
  LET rect == gaugeRect(W, H, e)
      r2 == gaugeRadius2(rect)
      cx == gaugeCx(rect)
      cy == gaugeCy(rect)
  IN <<[op |-> "background", w |-> W, h |-> H]>>
     \o avatarOps(hasPfp, pfpOutcome)
     \o <<[op |-> "handle"]>>
     \o <<trackOp(cx, cy, r2)>>
     \o htmlValueOps(s, r2)
     \o <<needleOpAt(cx, cy, s, needleRadii(r2, htmlNeedleScale(e)),
                     needleLineWidth(r2, htmlNeedleWidthFrac(e)), clock)>>

\* What a draw leaves in res: the inputs of the call, the geometry it
\* derived and the operations it issued.
DrawResult(backend, s, hasPfp, W, H, clock, k100, ops) ==
  LET rect == gaugeRect(W, H, env)
  IN [route |-> "draw", backend |-> backend, status |-> 200,
      s |-> s, hasPfp |-> hasPfp, W |-> W, H |-> H, clock |-> clock,
      rect |-> rect, r2 |-> gaugeRadius2(rect),
      cx |-> gaugeCx(rect), cy |-> gaugeCy(rect), k100 |-> k100, ops |-> ops]

\* GET /gauge of server.js, the assets loading, the background W x H.
ExpressGaugeDraw(W, H, clock) ==
  /\ app = "express" /\ pc = "idle" /\ sess.user
  /\ LET s == gaugeScore(sess.lastScore)
     IN res' = DrawResult("gauge", s, sess.pfp, W, H, clock, needleScale(env),
                          gaugeOps(s, sess.pfp, "ok", env, W, H, clock))
  /\ UNCHANGED <<cursor, app, env, scorer, sess, fsUser, fsRender, pc, collected, pages, lastFetch>>

\* GET /card.png of index.mjs, the assets loading, the background W x H.
SsrCardDraw(W, H, clock) ==
  /\ app = "ssr" /\ pc = "idle" /\ fsRender.score[1] = "num"
  /\ LET s == cardScore(fsRender.score)
     IN res' = DrawResult("card", s, fsRender.pfp, W, H, clock, needleScale(env),
                          cardOps(s, fsRender.pfp, "ok", env, W, H, clock))
  /\ UNCHANGED <<cursor, app, env, scorer, sess, fsUser, fsRender, pc, collected, pages, lastFetch>>

\* The browser runs the script of the page /fetch of logout.js answered (or
\* runs it again on a reload of the drawn page).
CanvasPageDraw(W, H, clock) ==
  /\ app = "canvas" /\ pc = "idle"
  /\ \/ res.route = "fetch" /\ res.page = "canvas"
     \/ res.route = "draw"
  /\ res' = DrawResult("canvas", res.s, fsUser.pfp, W, H, clock, htmlNeedleScale(env),
                       htmlOps(res.s, fsUser.pfp, "ok", env, W, H, clock))
  /\ UNCHANGED <<cursor, app, env, scorer, sess, fsUser, fsRender, pc, collected, pages, lastFetch>>

\* drawValue of the page the second handler of index.mjs answers: the
\* gradient path of logout.js when the browser has createConicGradient,
\* else three arcs of fixed colour that meet at 0.33 and 0.66 of the span.
pageValueOps(s, r2, canConic) ==
  LET tEnd == thetaEnd(s)
      w == valueWidth(r2)
      third == (33 * HalfTurn) \div 100
      twoThirds == (66 * HalfTurn) \div 100
  IN IF canConic THEN htmlValueOps(s, r2)
     ELSE <<[op |-> "band", a0 |-> 0, a1 |-> Min(third, tEnd), colour |-> C_RED,
             width |-> w]>>
          \o (IF tEnd > third
                THEN <<[op |-> "band", a0 |-> third, a1 |-> Min(twoThirds, tEnd),
                        colour |-> C_ORG, width |-> w]>>
                ELSE <<>>)
          \o (IF tEnd > twoThirds
                THEN <<[op |-> "band", a0 |-> twoThirds, a1 |-> tEnd,
                        colour |-> C_GRN, width |-> w]>>
                ELSE <<>>)

\* The script of that page, run by the browser on a background of W x H.
pageOps(s, hasPfp, pfpOutcome, e, W, H, clock, canConic) ==
  LET rect == gaugeRect(W, H, e)
      r2 == gaugeRadius2(rect)
      cx == gaugeCx(rect)
      cy == gaugeCy(rect)
  IN <<[op |-> "background", w |-> W, h |-> H]>>
     \o avatarOps(hasPfp, pfpOutcome)
     \o <<[op |-> "handle"]>>
     \o <<trackOp(cx, cy, r2)>>
     \o pageValueOps(s, r2, canConic)
     \o <<needleOpAt(cx, cy, s, needleRadii(r2, needleScale(e)),
                     needleLineWidth(r2, needleWidthFrac(e)), clock)>>

PageBackend(canConic) == IF canConic THEN "page" ELSE "page-noconic"

\* The browser runs the script of the gauge page the second handler of
\* index.mjs answered for the score of the fetch (a reload fetches again).
GaugePageDraw(W, H, clock, canConic) ==
  /\ app = "ssr" /\ pc = "idle" /\ lastFetch[1] = "num"
  /\ res.route = "fetch"
  /\ LET s == htmlScore(lastFetch[2])
     IN res' = DrawResult(PageBackend(canConic), s, fsUser.pfp, W, H, clock,
                          needleScale(env),
                          pageOps(s, fsUser.pfp, "ok", env, W, H, clock, canConic))
  /\ UNCHANGED <<cursor, app, env, scorer, sess, fsUser, fsRender, pc, collected, pages, lastFetch>>

MaxDim == 600
ImageSizes == {1, MaxDim, MaxDim + 1, 2 * MaxDim}
ImageHeights == {1, MaxDim}
Clock == {0, 1}
InsetStrings == {Str0, StrNeg5, Str500}
\* Every layout under the default needle, every needle under no insets,
\* and the defaults.
LayoutEnvs ==
  {[DefaultLayoutEnv EXCEPT !.GAUGE_LEFT = l, !.GAUGE_RIGHT = r,
                            !.GAUGE_TOP = t, !.GAUGE_BOTTOM = b] :
     l \in InsetStrings, r \in InsetStrings, t \in {Str0, Str500}, b \in {Str0, Str500}}
  \cup
  {[DefaultLayoutEnv EXCEPT !.GAUGE_LEFT = Str0, !.GAUGE_RIGHT = Str0,
                            !.GAUGE_TOP = Str0, !.GAUGE_BOTTOM = Str0,
                            !.NEEDLE_LEN_SCALE = k, !.NEEDLE_WIDTH_FRAC = f] :
     k \in {NaN, Dec(5), Dec(100), Dec(200)}, f \in {Dec(1), Dec(25)}}
  \cup {DefaultLayoutEnv}
DrawBodies ==
  {Tally(Num(k), Num(0), Num(PercentTotal - k)) : k \in {0, 1, PercentTotal \div 2, PercentTotal}}

InitDraw ==
  /\ app \in Apps
  /\ env \in LayoutEnvs
  /\ scorer \in DrawBodies
  /\ \E pfp \in BOOLEAN :
       /\ sess = [EmptySess EXCEPT !.user = (app = "express"),
                                   !.pfp = (pfp /\ app = "express")]
       /\ fsUser = [NoUser EXCEPT !.present = (app # "express"),
                                  !.pfp = (pfp /\ app # "express")]
  /\ fsRender = NoRender
  /\ pc = "webhook"
  /\ collected = desired
  /\ pages = 0
  /\ cursor = NoCursor
  /\ res = [route |-> "pending"]
  /\ lastFetch = NoFetch

\* One scored /fetch, then renders on backgrounds of every size.
NextDraw ==
  \/ ExpressFetchWebhook(scorer)
  \/ SsrFetchWebhook(scorer)
  \/ CanvasFetchWebhook(scorer)
  \/ \E W \in ImageSizes, H \in ImageHeights, clock \in Clock : ExpressGaugeDraw(W, H, clock)
  \/ \E W \in ImageSizes, H \in ImageHeights, clock \in Clock : SsrCardDraw(W, H, clock)
  \/ \E W \in ImageSizes, H \in ImageHeights, clock \in Clock : CanvasPageDraw(W, H, clock)
  \/ \E W \in ImageSizes, H \in {MaxDim}, clock \in Clock, canConic \in BOOLEAN :
       GaugePageDraw(W, H, clock, canConic)

SpecDraw == InitDraw /\ [][NextDraw]_vars

\* CanvasRenderingContext2D.createConicGradient(startAngle, x, y): colour
\* stop p lies at startAngle + p * (one full turn).  The position of the
\* angle theta in the gradient, in thousandths.
conicPosition(gradStart, theta) ==
  (((theta - gradStart) % (2 * HalfTurn)) * 1000) \div (2 * HalfTurn)

Drawn == res.route = "draw"
OpsOf(kind) == { i \in 1..Len(res.ops) : res.ops[i].op = kind }

\* (theta - (start + capAngle)) / ((end - start) - capAngle), in thousandths.
RampPosition(cap, theta) == ((theta - cap) * 1000) \div (HalfTurn - cap)

\* C12: the conic gradient of the client script and the slices of
\* renderCardPNG place an angle of the gradient part at the same ramp
\* position (theta - (start + capAngle)) / ((end - start) - capAngle): the
\* end of a full gauge is at 1.0 and the middle at 0.5.
C12_SameRampPosition ==
  Drawn =>
    /\ \A i \in OpsOf("slice") :
         LET o == res.ops[i]
         IN RampPosition(capAngle(res.r2), o.a0) = (o.i * 1000) \div segs
    /\ \A i \in OpsOf("conic") :
         LET o == res.ops[i]
         IN \A theta \in {(o.a0 + o.a1) \div 2, o.a1} :
              theta > o.gradStart =>
                LET d == conicPosition(o.gradStart, theta) - RampPosition(o.a0, theta)
                IN -1 <= d /\ d <= 1

Near(c, d) == \A k \in 1..3 : c[k] - d[k] \in -1..1

\* C13: renderCardPNG at score 100: the first slice is stroked in stop 0.0,
\* rgb(217,83,79), and the last one in stop 1.0, rgb(92,184,92), each
\* channel up to integer rounding.
C13_EndpointColours ==
  (Drawn /\ res.backend = "card" /\ res.s = 100) =>
    \A i \in OpsOf("slice") :
      /\ res.ops[i].i = 0 => Near(res.ops[i].colour, C_RED)
      /\ res.ops[i].i = segs - 1 => Near(res.ops[i].colour, C_GRN)

\* C14: the drawable box has w = max(0, W - left - right) >= 0 and
\* h = max(0, H - top - bottom) >= 0, and r = max(1, min(w/2, h)): r >= 1
\* always; a box of 600 x 600 with no insets has r = 300.
C14_Radius ==
  Drawn =>
    LET w == res.rect.w
        h == res.rect.h
        fullW == res.W - intish(env.GAUGE_LEFT, 0) - intish(env.GAUGE_RIGHT, 0)
        fullH == res.H - intish(env.GAUGE_TOP, 0) - intish(env.GAUGE_BOTTOM, 0)
    IN /\ w >= 0 /\ h >= 0
       /\ w = (IF fullW > 0 THEN fullW ELSE 0)
       /\ h = (IF fullH > 0 THEN fullH ELSE 0)
       /\ res.r2 >= 2
       /\ IF w >= 2 /\ h >= 1
            THEN res.r2 <= w /\ res.r2 <= 2 * h /\ (res.r2 = w \/ res.r2 = 2 * h)
            ELSE res.r2 = 2
       /\ (w = 600 /\ h = 600 /\ res.W = 600 /\ res.H = 600) => res.r2 = 2 * 300

C14_Witness ==
  /\ Drawn /\ res.backend = "gauge"
  /\ res.W = 600 /\ res.H = 600 /\ res.rect = [x |-> 0, y |-> 0, w |-> 600, h |-> 600]
  /\ res.r2 = 600


NeedleOf == res.ops[CHOOSE i \in OpsOf("needle") : TRUE]

\* C15: the rescaled needle keeps the midpoint of the default radii
\* r1 = r - max(10, round(0.30 r)), r2 = r + max(8, round(0.05 r)) and has k
\* times their length: r1' + r2' = r1 + r2 and r2' - r1' = k (r2 - r1);
\* k = 1 gives r1 and r2 (210 and 315 for r = 300), k = 2 twice the length.
C15_NeedleMidpoint ==
  Drawn =>
    LET d1 == 200 * needleInner2(res.r2)
        d2 == 200 * needleOuter2(res.r2)
        n == NeedleOf
    IN /\ n.r1 + n.r2 = d1 + d2
       /\ 100 * (n.r2 - n.r1) = res.k100 * (d2 - d1)
       /\ res.k100 = 100 => n.r1 = d1 /\ n.r2 = d2
       /\ (res.k100 = 100 /\ res.r2 = 2 * 300) => n.r1 = 400 * 210 /\ n.r2 = 400 * 315
       /\ res.k100 = 200 => n.r2 - n.r1 = 2 * (d2 - d1)

C15_Witness ==
  /\ Drawn /\ res.backend = "card" /\ res.r2 = 600 /\ res.k100 = 200
  /\ NeedleOf.r2 - NeedleOf.r1 = 400 * 2 * (315 - 210)
  /\ NeedleOf.r1 + NeedleOf.r2 = 400 * (210 + 315)

\* A malformed field counted as 0; a null or primitive in place of a tally
\* counted as a tally of zeros.
ZeroField(f) == IF f[1] = "num" THEN f ELSE Num(0)
ZeroTally(o) ==
  IF o.kind = "obj"
    THEN Tally(ZeroField(o.Positive), ZeroField(o.Neutral), ZeroField(o.Negative))
    ELSE Tally(Num(0), Num(0), Num(0))
Zeroed(b) ==
  IF b.kind = "arr" THEN JArray([i \in 1..Len(b.items) |-> ZeroTally(b.items[i])])
  ELSE ZeroTally(b)

\* C16: for every JSON value the scorer answers, /fetch computes what it
\* computes for the same answer with every malformed field or tally
\* replaced by a count of 0.
C16_MalformedAbsorbed ==
  (Scored /\ res.body.kind \in {"obj", "arr", "null", "prim"})
    => res.displayScore = ScoreOf(Zeroed(res.body), res.n)

\* A tally whose three fields are numbers, negative ones included.
IsNumericTally(o) ==
  o.kind = "obj" /\ o.Positive[1] = "num" /\ o.Neutral[1] = "num" /\ o.Negative[1] = "num"
IsNumericBody(b) ==
  \/ IsNumericTally(b)
  \/ b.kind = "arr" /\ \A i \in 1..Len(b.items) : IsNumericTally(b.items[i])

\* C17: for every numeric tally input with T > 0, negative counts included,
\* the score /fetch computes, keeps in the session and writes to the
\* fs:render cookie lies in [0,100].
C17_ScoreClamped ==
  (Scored /\ IsNumericBody(res.body) /\ SumT(res.body) > 0)
    => /\ res.displayScore[1] = "num" => res.displayScore[2] \in 0..100
       /\ sess.lastScore[1] = "num" => sess.lastScore[2] \in 0..100
       /\ fsRender.score[1] = "num" => fsRender.score[2] \in 0..100

\* The draw operations the backend of the answer issues for the answer's
\* inputs when the call is made at time c.
OpsAt(c) ==
  CASE res.backend = "gauge"  -> gaugeOps(res.s, res.hasPfp, "ok", env, res.W, res.H, c)
    [] res.backend = "card"   -> cardOps(res.s, res.hasPfp, "ok", env, res.W, res.H, c)
    [] res.backend = "canvas" -> htmlOps(res.s, res.hasPfp, "ok", env, res.W, res.H, c)
    [] res.backend = "page"   ->
         pageOps(res.s, res.hasPfp, "ok", env, res.W, res.H, c, TRUE)
    [] res.backend = "page-noconic" ->
         pageOps(res.s, res.hasPfp, "ok", env, res.W, res.H, c, FALSE)

RawNull == [kind |-> "null"]
RawUndefined == [kind |-> "undefined"]
RawStr(s) == [kind |-> "str", chars |-> s]

\* String(v ?? "")
StringOf(v) == IF v.kind = "str" THEN v.chars ELSE <<>>

MaxLen == 4
IntishAlphabet == {"-", "0", "1", "5", "x"}
ShortStrings == UNION { [1..k -> IntishAlphabet] : k \in 0..MaxLen }
\* A run of nines too long for a finite double, with and without a sign
\* and text around it, and a run of zeros as long that ends in a 7.
LongNines == [i \in 1..InfinityDigits |-> "9"]
LongZeros7 == [i \in 1..(InfinityDigits + 1) |-> IF i <= InfinityDigits THEN "0" ELSE "7"]
LongStrings == {LongNines, <<"x", "-">> \o LongNines \o <<"x">>, LongZeros7}
RawValues == {RawNull, RawUndefined} \cup { RawStr(s) : s \in ShortStrings \cup LongStrings }
Defaults == {0, 50}

\* n = intish(v, def), on the arguments waiting in res.
IntishCall ==
  /\ res.route = "args"
  /\ res' = [route |-> "intish", v |-> res.v, def |-> res.def,
             n |-> intish(StringOf(res.v), res.def)]
  /\ UNCHANGED <<cursor, app, env, scorer, sess, fsUser, fsRender, pc, collected, pages, lastFetch>>

InitIntish ==
  /\ app \in Apps
  /\ env = DefaultEnv
  /\ scorer = NonJson
  /\ sess = EmptySess
  /\ fsUser = NoUser
  /\ fsRender = NoRender
  /\ pc = "idle"
  /\ collected = 0
  /\ pages = 0
  /\ cursor = NoCursor
  /\ \E v \in RawValues, def \in Defaults :
       res = [route |-> "args", v |-> v, def |-> def]
  /\ lastFetch = NoFetch

NextIntish == IntishCall

SpecIntish == InitIntish /\ [][NextIntish]_vars

Parsed == res.route = "intish"
HasDigit(s) == \E i \in 1..Len(s) : s[i] \in Digits
FirstDigitAt(s) == CHOOSE i \in 1..Len(s) : s[i] \in Digits /\ \A k \in 1..(i - 1) : s[k] \notin Digits
\* The first run of decimal digits of s.
FirstRun(s) ==
  LET i == FirstDigitAt(s)
      j == CHOOSE j \in i..Len(s) :
             /\ \A k \in i..j : s[k] \in Digits
             /\ j = Len(s) \/ s[j + 1] \notin Digits
  IN SubSeq(s, i, j)
RunIsNegative(s) == FirstDigitAt(s) > 1 /\ s[FirstDigitAt(s) - 1] = "-"
\* A run without its leading zeros (one digit at least).
Significant(run) ==
  LET nz == { i \in 1..Len(run) : run[i] # "0" }
  IN IF nz = {} THEN <<"0">>
     ELSE SubSeq(run, CHOOSE i \in nz : \A k \in nz : i <= k, Len(run))
DigitChar(d) == CHOOSE c \in Digits : DigitVal(c) = d
\* The decimal numeral of n >= 0.
RECURSIVE Decimal(_)
Decimal(n) ==
  IF n < 10 THEN <<DigitChar(n)>> ELSE Decimal(n \div 10) \o <<DigitChar(n % 10)>>
\* n is the integer the first digit run of s denotes, negative when the run
\* is immediately preceded by '-'.
Denotes(n, s) ==
  /\ Decimal(IF n < 0 THEN 0 - n ELSE n) = Significant(FirstRun(s))
  /\ n < 0 => RunIsNegative(s)
  /\ n > 0 => ~RunIsNegative(s)

C20_ArcFitsBox ==
  Drawn =>
    /\ 2 * res.cx - res.r2 >= 2 * res.rect.x
    /\ 2 * res.cx + res.r2 <= 2 * (res.rect.x + res.rect.w)
    /\ 2 * res.cy - res.r2 >= 2 * res.rect.y

\* C21: for every drawable box, odd widths included, the centre of the arcs
\* and of the needle is exactly cx = x + w/2 and cy = y + h (cx doubled).
C21_CentreExact ==
  Drawn =>
    /\ 2 * res.cx = 2 * res.rect.x + res.rect.w
    /\ res.cy = res.rect.y + res.rect.h

\* The width fraction the needle stroke of the answer's backend multiplies
\* into r, in thousandths.
WidthFracUsed ==
  IF res.backend = "canvas" THEN htmlNeedleWidthFrac(env) ELSE needleWidthFrac(env)

\* C22: in every render path and for every raw NEEDLE_LEN_SCALE and
\* NEEDLE_WIDTH_FRAC, the length scale multiplied into the needle's half
\* length is >= 0.1 (the needle drawn is at least a tenth of the default
\* one) and the width fraction of the stroke is >= 0.003.
C22_NeedleLowerBounds ==
  Drawn =>
    /\ res.k100 >= 10
    /\ 100 * (NeedleOf.r2 - NeedleOf.r1)
         >= 10 * 200 * (needleOuter2(res.r2) - needleInner2(res.r2))
    /\ WidthFracUsed >= 3
    /\ NeedleOf.width >= needleLineWidth(res.r2, 3)

\* C23 as stated: as the score goes 0 -> 100 the needle's outer endpoint
\* moves from 9 o'clock (left of the centre, same height) through 6 o'clock
\* (directly below the centre on the image, at score 50) to 3 o'clock (right
\* of the centre, at score 100).
C23_SweepThroughSix ==
  (Drawn /\ NeedleOf.r2 > 0) =>
    /\ res.s = 0 => needleTip(NeedleOf) = [dx |-> 0 - 1, dy |-> 0]
    /\ res.s = 50 => needleTip(NeedleOf) = [dx |-> 0, dy |-> 1]
    /\ res.s = 100 => needleTip(NeedleOf) = [dx |-> 1, dy |-> 0]

\* C23 amended: the outer endpoint moves from 9 o'clock clockwise through 12
\* o'clock (directly above the centre on the image, at score 50) to 3
\* o'clock: the canvas angle grows with the score, the endpoint is never
\* below the centre, left of it under 50 and right of it over 50.
C23_SweepOverTop ==
  (Drawn /\ NeedleOf.r2 > 0) =>
    /\ NeedleOf.a = thetaEnd(res.s)
    /\ \A t \in 0..99 : thetaEnd(t) < thetaEnd(t + 1)
    /\ thetaEnd(0) = 0 /\ thetaEnd(100) = HalfTurn
    /\ res.s = 0 => needleTip(NeedleOf) = [dx |-> 0 - 1, dy |-> 0]
    /\ (res.s > 0 /\ res.s < 50) => needleTip(NeedleOf) = [dx |-> 0 - 1, dy |-> 0 - 1]
    /\ res.s = 50 => needleTip(NeedleOf) = [dx |-> 0, dy |-> 0 - 1]
    /\ (res.s > 50 /\ res.s < 100) => needleTip(NeedleOf) = [dx |-> 1, dy |-> 0 - 1]
    /\ res.s = 100 => needleTip(NeedleOf) = [dx |-> 1, dy |-> 0]

\* The needle of a score of 50 drawn straight up by /gauge.
C23_Witness ==
  /\ Drawn /\ res.backend = "gauge" /\ res.s = 50 /\ NeedleOf.r2 > 0
  /\ needleTip(NeedleOf) = [dx |-> 0, dy |-> 0 - 1]

IsDrawEvent(e) == e \in {"draw:bg", "draw:avatar", "draw:handle", "draw:track",
                         "draw:value", "draw:needle"}
IsAssetEvent(e) == e \in {"load:bg", "fetch:pfp"}

\* C24: in every render call the background load and the avatar fetch have
\* completed (or failed) before the first draw operation: no asset event
\* follows a draw event.
C24_AssetsBeforeDrawing ==
  RenderTried =>
    \A i, j \in 1..Len(res.trace) :
      (i < j /\ IsDrawEvent(res.trace[i])) => ~IsAssetEvent(res.trace[j])

HasValueArc == Drawn /\ res.backend \in {"card", "canvas"}
GradientOps == OpsOf("slice") \cup OpsOf("conic")

\* C25: with thetaEnd = start + (score/100)(end - start) and
\* capAngle = (valueWidth/2)/r: if thetaEnd <= start + capAngle the value arc
\* is one stroke from start to thetaEnd in rgb(217,83,79) and no gradient or
\* slice is drawn; otherwise a segment [start, start + capAngle] in that
\* colour is drawn first and the gradient part covers exactly
\* [start + capAngle, thetaEnd].
C25_ValueArcCaseSplit ==
  HasValueArc =>
    LET tEnd == thetaEnd(res.s)
        cap == capAngle(res.r2)
        c == CHOOSE i \in OpsOf("cap") : TRUE
    IN /\ Cardinality(OpsOf("cap")) = 1
       /\ res.ops[c].colour = <<217, 83, 79>> /\ res.ops[c].a0 = 0
       /\ IF tEnd <= cap
            THEN res.ops[c].a1 = tEnd /\ GradientOps = {}
            ELSE /\ res.ops[c].a1 = cap
                 /\ GradientOps # {}
                 /\ \A g \in GradientOps : c < g /\ res.ops[g].a0 < res.ops[g].a1
                 /\ \E g \in GradientOps : res.ops[g].a0 = cap
                 /\ \E g \in GradientOps : res.ops[g].a1 = tEnd
                 /\ \A g \in GradientOps :
                      \/ res.ops[g].a1 = tEnd
                      \/ (g + 1) \in GradientOps /\ res.ops[g + 1].a0 = res.ops[g].a1

\* A score of 1 on a radius of 300: the arc ends inside the cap segment.
C25_Witness ==
  /\ HasValueArc /\ res.backend = "card" /\ res.s = 1 /\ res.r2 = 600
  /\ thetaEnd(1) > 0 /\ thetaEnd(1) < capAngle(600)
  /\ GradientOps = {} /\ Cardinality(OpsOf("cap")) = 1

\* A score of 50 on a radius of 300: cap segment, then twelve slices.
C25_WitnessSlices ==
  /\ HasValueArc /\ res.backend = "card" /\ res.s = 50 /\ res.r2 = 600
  /\ Cardinality(OpsOf("slice")) = 12

\* The arcs that make up the gradient part where no conic gradient is used.
FallbackArcs == OpsOf("slice") \cup OpsOf("band")

\* C26: every render path without a native conic gradient draws the gradient
\* part as equal angular slices, at least 20 across the full track span
\* (seen on a full gauge, score 100): renderCardPNG and the client drawValue
\* of index.mjs when the browser has no createConicGradient.
C26_AtLeastTwentySlices ==
  (Drawn /\ res.backend \in {"card", "page-noconic"} /\ res.s = 100) =>
    /\ Cardinality(FallbackArcs) >= 20
    /\ \A i, j \in FallbackArcs :
         res.ops[i].a1 - res.ops[i].a0 = res.ops[j].a1 - res.ops[j].a0

\* The slices of the answer in the order the loop drew them.
SliceAt(k) == res.ops[CHOOSE i \in OpsOf("slice") : res.ops[i].i = k]
SliceCount == Cardinality(OpsOf("slice"))

\* C27: renderCardPNG, thetaEnd > start + capAngle: the drawn slices are
\* contiguous and do not overlap, the first starts at start + capAngle, none
\* ends past thetaEnd, the last one ends exactly at thetaEnd, and the loop
\* stops after it, within 24 iterations.
C27_SliceClipping ==
  (Drawn /\ res.backend = "card" /\ thetaEnd(res.s) > capAngle(res.r2)) =>
    LET tEnd == thetaEnd(res.s)
        n == SliceCount
    IN /\ n >= 1 /\ n <= 24
       /\ \A i \in OpsOf("slice") : res.ops[i].i \in 0..(n - 1)
       /\ \A i, j \in OpsOf("slice") : i < j => res.ops[i].i < res.ops[j].i
       /\ SliceAt(0).a0 = capAngle(res.r2)
       /\ \A k \in 0..(n - 1) : SliceAt(k).a0 < SliceAt(k).a1 /\ SliceAt(k).a1 <= tEnd
       /\ \A k \in 0..(n - 2) : SliceAt(k + 1).a0 = SliceAt(k).a1
       /\ SliceAt(n - 1).a1 = tEnd

\* A score of 50 on a radius of 300: twelve slices, the twelfth cut at
\* thetaEnd.
C27_Witness ==
  /\ Drawn /\ res.backend = "card" /\ res.s = 50 /\ res.r2 = 600
  /\ SliceCount = 12 /\ SliceAt(11).a1 = thetaEnd(50)
  /\ SliceAt(11).a1 < capAngle(600) + (12 * (HalfTurn - capAngle(600))) \div segs

\* One turn of the page loop of the /fetch in flight.
FetchPageStep ==
  \E p \in PageResponses :
    ExpressFetchPage(p) \/ SsrFetchPage(p) \/ CanvasFetchPage(p)

\* Every route, the post collaborator answering each page request of a
\* /fetch in flight (each await of the loop resumes).
SpecLive == Init /\ [][Next]_vars /\ WF_vars(FetchPageStep)

\* C28: the page loop of every /fetch handler ends after finitely many page
\* requests whatever the collaborator answers, empty pages that still carry
\* has_next_page and a next_cursor included.
C28_PagingTerminates == (pc = "paging") ~> (pc # "paging")

\* The second half of C28: at most desired posts go to the scorer.
C28_AtMostDesired == Scored => res.n <= desired

\* The tally with the positive and the negative counts exchanged.
Swapped(o) == Tally(o.Negative, o.Neutral, o.Positive)

\* The score of the answered tally plus the score of its mirror image.
MirrorSum == res.displayScore[2] + ScoreOf(Swapped(res.body), res.n)[2]

\* ((P - Neg + T) / (2T)) * 100 lies halfway between two integers.
OnHalf(o) == (100 * (o.Positive[2] - o.Negative[2] + SumT(o))) % (2 * SumT(o)) = SumT(o)

\* /fetch has scored a single valid tally with T > 0.
ScoredTally == Scored /\ IsValidTally(res.body) /\ SumT(res.body) > 0

\* C29 as stated: exchanging the positive and the negative counts mirrors
\* the score, score(P, Neu, Neg) + score(Neg, Neu, P) = 100.
C29_PolaritySymmetry == ScoredTally => MirrorSum = 100

\* C29 amended: the two scores sum to 100 or to 101, and to 100 whenever
\* the unrounded value is not halfway between two integers (Math.round
\* takes both halves upwards).
C29_SymmetryUpToRounding ==
  ScoredTally => /\ MirrorSum \in {100, 101}
                 /\ ~OnHalf(res.body) => MirrorSum = 100

\* P = 1, Neu = 1, Neg = 2: 37.5 gives 38, the mirror image 62.5 gives 63.
C29_Witness ==
  /\ ScoredTally /\ res.body = Tally(Num(1), Num(1), Num(2))
  /\ res.displayScore = Num(38) /\ MirrorSum = 101

\* C30: index.mjs: /card.png renders the score of the session's most recent
\* /fetch; when that /fetch computed no score, or none ran since the
\* login, it answers 400 and renders nothing.
C30_CardShowsLatestFetch ==
  (app = "ssr" /\ res.route = "card")
    => IF lastFetch[1] = "num"
         THEN res.status # 400 /\ res.lastScore = lastFetch
         ELSE res.status = 400

=============================================================================
